---- MODULE Spec2Model ----
(***************************************************************************)
(* Paper-trading arbitrage engine of cross-chain-arbitrage                 *)
(* (src/src/arbitrage.ts, src/src/getters.ts, src/src/clients.ts).         *)
(*                                                                         *)
(* Numbers.  The code computes in float64.  The model keeps every amount   *)
(* (balances, trade sizes, profits, gas cost in USD, the profit threshold) *)
(* as an integer number of ledger units, Unit units to one token, and      *)
(* every price as an integer number of 1/PriceScale.  A quotient/product   *)
(* chain such as amount / buyPrice * sellPrice is evaluated exactly and    *)
(* truncated once to the ledger grid.  TLC integers are 32 bit wide, so    *)
(* the grid keeps three decimals of a token where the code's ATOMIC_UNIT   *)
(* keeps six: ATOMIC_UNIT is one ledger unit in both.                      *)
(***************************************************************************)
EXTENDS Integers, Sequences, FiniteSets, TLC

\* ---------------------------------------------------------------- bounds
MaxTrades == 2          \* trades recorded before the model stops starting work

\* ------------------------------------------------------------- constants
Unit == 1000            \* ledger units per token (grid of the model)
PriceScale == 10000     \* a price p stands for p / PriceScale
ATOMIC_UNIT == 1        \* arbitrage.ts:656, one step of the ledger grid
SeedTokens == 50000     \* arbitrage.ts:188-189
AbsoluteMinTradeTokens == 100   \* arbitrage.ts:706, 761
PRICE_POLLING_INTERVAL == 5000  \* clients.ts:16
RETRY_DELAY == 1000             \* clients.ts:20

Chains == {"avalanche", "sonic"}                 \* clients.ts:67 CHAIN_NAMES
Tokens == {"USDC", "USDT"}
Callers == {"cycle", "api"}

\* inputs of the environment
PoolPrices == {9998, 10002}            \* raw pool price, token1 per token0
GasValues == {50}                      \* USD cost of one chain's swap, in units
Thresholds == {0, 500}                 \* PROFIT_THRESHOLD of the environment
ApiAmounts == {49200 * Unit, 60000 * Unit}
PoolLayouts == {[avalanche |-> "USDC", sonic |-> "USDC"],
                [avalanche |-> "USDC", sonic |-> "USDT"]}   \* token0 of each pool
ApiChainPairs == {<<"avalanche", "sonic">>, <<"avalanche", "avalanche">>}   \* buyChain, sellChain
ApiPricePairs == {<<9998, 10002>>, <<10000, 10000>>, <<10002, 9998>>}

NoPrice == [tokens0PerToken1 |-> 0, tokens1PerToken0 |-> 0]   \* lastPrices[chain] undefined
NoGas == -1                                                    \* gasCosts[chain] undefined

VARIABLES
  PROFIT_THRESHOLD,  \* CONFIG.PROFIT_THRESHOLD, read once from the environment
  poolToken0,        \* per chain: symbol of token0 of the pool (pool metadata)
  paperBalances,     \* per chain: [usdc, usdt]
  paperTrades,       \* sequence of PaperTrade records
  lastPrices,        \* per chain: latest stored pool price, or NoPrice
  gasCosts,          \* per chain: latest gas cost (USD units), or NoGas
  pc,                \* position of monitorPrices in its loop body
  cyc,               \* locals of the running cycle
  poolMetadataCache, \* per chain: pool metadata already fetched
  calls,             \* per caller: the execute* invocation in flight
  ret,               \* per caller: how its execute* invocation since the last sleep ended
  priceCache,        \* per chain: cached USD price of the native token
  clock,             \* Date.now(), in ms since the start
  usd,               \* the latest call of getUSDPrice / getGasCostInUSD and what it returned
  retry,             \* the withRetry invocation in progress, or the last one
  stats              \* what the latest getPaperTradingStats / getPaperBalance returned

\* the state next to the ledger and the loop: caches, clock and the records
\* of the calls of the exported helpers
sideVars == <<priceCache, clock, usd, retry, stats>>

vars == <<PROFIT_THRESHOLD, poolToken0, paperBalances, paperTrades, lastPrices,
          gasCosts, pc, cyc, poolMetadataCache, calls, ret,
          priceCache, clock, usd, retry, stats>>

\* ------------------------------------------------------------ arithmetic
Min(a, b) == IF a < b THEN a ELSE b
Max(a, b) == IF a > b THEN a ELSE b

\* floor(a * n / d) and ceil(a * n / d) for a, n >= 0 and d > 0, without
\* forming a * n
MulDivFloor(a, n, d) == (a \div d) * n + ((a % d) * n) \div d
MulDivCeil(a, n, d) == (a \div d) * n + ((a % d) * n + d - 1) \div d

\* 1 / price on the price grid (getters.ts:273)
Inverse(p) == (PriceScale * PriceScale + p \div 2) \div p

\* ---------------------------------------------------------------- ledger
getPaperBalance(chainName) == paperBalances[chainName]

calculateTotalPaperValue ==
  paperBalances["avalanche"].usdc + paperBalances["avalanche"].usdt
  + paperBalances["sonic"].usdc + paperBalances["sonic"].usdt

TotalUSDC == paperBalances["avalanche"].usdc + paperBalances["sonic"].usdc
TotalUSDT == paperBalances["avalanche"].usdt + paperBalances["sonic"].usdt

getGasCostInUSD(chain) == IF gasCosts[chain] = NoGas THEN 0 ELSE gasCosts[chain]

\* variant: ties go to USDT
determineTargetTokenStrict == IF TotalUSDC < TotalUSDT THEN "USDC" ELSE "USDT"

determineTargetToken == IF TotalUSDC <= TotalUSDT THEN "USDC" ELSE "USDT"

\* the final confirmation of check*TargetedArbitrage
CheckProfitable(netProfitUSD) == netProfitUSD > PROFIT_THRESHOLD

\* variant: a net profit equal to the threshold is accepted
ExecProfitableOrEqual(netProfitUSD) == netProfitUSD >= PROFIT_THRESHOLD

\* variant: the trade is recorded whatever its net profit
ExecProfitableUnchecked(netProfitUSD) == TRUE

\* the profit test of execute*TargetedArbitrage
ExecProfitable(netProfitUSD) == netProfitUSD > PROFIT_THRESHOLD

\* ------------------------------------------------------------- evaluator
\* variant: the ratio of the USDC-targeted direction used for both directions
calculateMinimumTradeAmountOneRatio(buyPrice, sellPrice, totalGasUSD, isUSDCTargeted) ==
  LET requiredNetProfit == totalGasUSD + PROFIT_THRESHOLD + ATOMIC_UNIT
  IN  IF sellPrice <= buyPrice THEN 0
      ELSE MulDivCeil(requiredNetProfit + totalGasUSD, buyPrice, sellPrice - buyPrice)

\* variant: the ratio is the larger price over the smaller one
calculateMinimumTradeAmountLargerOverSmaller(buyPrice, sellPrice, totalGasUSD, isUSDCTargeted) ==
  LET requiredNetProfit == totalGasUSD + PROFIT_THRESHOLD + ATOMIC_UNIT
      num == Max(buyPrice, sellPrice)
      den == Min(buyPrice, sellPrice)
  IN  IF num <= den THEN 0
      ELSE MulDivCeil(requiredNetProfit + totalGasUSD, den, num - den)

\* variant: no atomic unit is added to the required profit and the amount is
\* rounded down
calculateMinimumTradeAmountNoAtomicUnit(buyPrice, sellPrice, totalGasUSD, isUSDCTargeted) ==
  LET requiredNetProfit == totalGasUSD + PROFIT_THRESHOLD
      num == IF isUSDCTargeted THEN sellPrice ELSE buyPrice
      den == IF isUSDCTargeted THEN buyPrice ELSE sellPrice
  IN  IF num <= den THEN 0
      ELSE MulDivFloor(requiredNetProfit + totalGasUSD, den, num - den)

\* variant: the gas cost is credited to the required profit, not charged
calculateMinimumTradeAmountGasCredited(buyPrice, sellPrice, totalGasUSD, isUSDCTargeted) ==
  LET required == PROFIT_THRESHOLD + ATOMIC_UNIT - totalGasUSD
      num == IF isUSDCTargeted THEN sellPrice ELSE buyPrice
      den == IF isUSDCTargeted THEN buyPrice ELSE sellPrice
  IN  IF num <= den THEN 0
      ELSE (required * den) \div (num - den)

calculateMinimumTradeAmount(buyPrice, sellPrice, totalGasUSD, isUSDCTargeted) ==
  LET requiredNetProfit == totalGasUSD + PROFIT_THRESHOLD + ATOMIC_UNIT
      num == IF isUSDCTargeted THEN sellPrice ELSE buyPrice   \* priceRatio = num / den
      den == IF isUSDCTargeted THEN buyPrice ELSE sellPrice
  IN  IF num <= den THEN 0
      ELSE MulDivCeil(requiredNetProfit + totalGasUSD, den, num - den)

\* amount received at the end of the round trip, in the starting asset
Received(amount, buyPrice, sellPrice, isUSDCTargeted) ==
  IF isUSDCTargeted THEN MulDivFloor(amount, sellPrice, buyPrice)
                    ELSE MulDivFloor(amount, buyPrice, sellPrice)

StartBalance(balance, isUSDCTargeted) ==
  IF isUSDCTargeted THEN balance.usdc ELSE balance.usdt

\* variant: the whole balance of the starting asset may be traded
MaxTradeAmountWhole(balance) == balance

\* Math.floor(balance * 0.5), a whole number of tokens
MaxTradeAmount(balance) == (balance \div (2 * Unit)) * Unit

\* variant: only the absolute minimum is compared with the cap
InsufficientForTradeAbsoluteOnly(maxTradeAmount, minTradeAmount) ==
  maxTradeAmount < AbsoluteMinTradeTokens * Unit

\* the sizing check of check*TargetedArbitrage
InsufficientForTrade(maxTradeAmount, minTradeAmount) ==
  maxTradeAmount < Max(minTradeAmount, AbsoluteMinTradeTokens * Unit)

\* variant: trade as much as the cap allows
TradeAmountLargest(maxTradeAmount, minTradeAmount) == maxTradeAmount

\* the amount check*TargetedArbitrage trades
TradeAmount(maxTradeAmount, minTradeAmount) ==
  Min(maxTradeAmount, Max(minTradeAmount, AbsoluteMinTradeTokens * Unit))

\* check{USDC,USDT}TargetedArbitrage up to its decision
CheckTargetedArbitrage(buyChain, buyPrice, sellPrice, totalGasUSD, isUSDCTargeted) ==
  LET sourceBalance == getPaperBalance(buyChain)
      minTradeAmount == calculateMinimumTradeAmount(buyPrice, sellPrice, totalGasUSD, isUSDCTargeted)
      maxTradeAmount == MaxTradeAmount(StartBalance(sourceBalance, isUSDCTargeted))
      tradeAmount == TradeAmount(maxTradeAmount, minTradeAmount)
      grossProfit == Received(tradeAmount, buyPrice, sellPrice, isUSDCTargeted) - tradeAmount
      netProfitUSD == grossProfit - totalGasUSD
      reason == IF minTradeAmount = 0 THEN "ratio<=1"
                ELSE IF InsufficientForTrade(maxTradeAmount, minTradeAmount)
                       THEN "insufficient balance"
                ELSE IF CheckProfitable(netProfitUSD) THEN "execute"
                ELSE "below threshold"
  IN  [reason |-> reason, minTradeAmount |-> minTradeAmount,
       maxTradeAmount |-> maxTradeAmount,
       tradeAmount |-> IF reason \in {"execute", "below threshold"} THEN tradeAmount ELSE 0]

\* 1 / 0 in float64, above every price of the grid
Infinity == PriceScale * PriceScale * 10

\* 0 / 0 and Infinity / Infinity in float64
NaN == -1

\* a price no pool in order reports: 0 or its inverse
Degenerate(price) == price = 0 \/ price = Infinity

\* check*TargetedArbitrage on a pair of prices of which one is degenerate, in
\* float64: the price ratio is 0 or Infinity and calculateMinimumTradeAmount
\* returns 0, or it is NaN (0/0, Infinity/Infinity), every comparison with
\* the NaN amounts is false and the else branch of the final check is taken
CheckDegenerate(buyChain, buyPrice, sellPrice, isUSDCTargeted) ==
  LET sourceBalance == getPaperBalance(buyChain)
      ratioIsNaN == buyPrice = sellPrice
  IN  [reason |-> IF ratioIsNaN THEN "below threshold" ELSE "ratio<=1",
       minTradeAmount |-> IF ratioIsNaN THEN NaN ELSE 0,
       maxTradeAmount |-> IF ratioIsNaN
                            THEN MaxTradeAmount(StartBalance(sourceBalance, isUSDCTargeted))
                            ELSE 0,
       tradeAmount |-> IF ratioIsNaN THEN NaN ELSE 0]

\* ------------------------------------------------------ execute* frames
NoCall == [state |-> "none", isUSDCTargeted |-> FALSE,
           buyChain |-> "avalanche", sellChain |-> "avalanche",
           buyPrice |-> 0, sellPrice |-> 0, amount |-> 0,
           sourceBalance |-> [usdc |-> 0, usdt |-> 0],
           targetBalance |-> [usdc |-> 0, usdt |-> 0],
           received |-> 0, gasCostUSD |-> 0]

\* an invocation of execute*TargetedArbitrage with its arguments
CallFrame(isUSDCTargeted, buyChain, sellChain, buyPrice, sellPrice, amount) ==
  [NoCall EXCEPT !.state = "called", !.isUSDCTargeted = isUSDCTargeted,
                 !.buyChain = buyChain, !.sellChain = sellChain,
                 !.buyPrice = buyPrice, !.sellPrice = sellPrice, !.amount = amount]

\* variant: the check compares the amount with the chain's whole holding
SufficientBalanceAnyAsset(sourceBalance, amount, isUSDCTargeted) ==
  ~ (sourceBalance.usdc + sourceBalance.usdt < amount)

\* variant: no commit-time check
SufficientBalanceUnchecked(sourceBalance, amount, isUSDCTargeted) == TRUE

\* the commit-time balance check of execute*TargetedArbitrage
SufficientBalance(sourceBalance, amount, isUSDCTargeted) ==
  ~ (StartBalance(sourceBalance, isUSDCTargeted) < amount)

\* variant: the gas cost of the sizing is carried into the execution
ExecFrameSizingGas(f) ==
  [f EXCEPT !.state = "awaitGas",
            !.sourceBalance = getPaperBalance(f.buyChain),
            !.targetBalance = getPaperBalance(f.sellChain),
            !.received = Received(f.amount, f.buyPrice, f.sellPrice, f.isUSDCTargeted),
            !.gasCostUSD = cyc.totalGasUSD]

\* the locals of execute*TargetedArbitrage when it awaits the gas costs
ExecFrame(f) ==
  [f EXCEPT !.state = "awaitGas",
            !.sourceBalance = getPaperBalance(f.buyChain),
            !.targetBalance = getPaperBalance(f.sellChain),
            !.received = Received(f.amount, f.buyPrice, f.sellPrice, f.isUSDCTargeted),
            !.gasCostUSD = getGasCostInUSD(f.buyChain) + getGasCostInUSD(f.sellChain)]

NewSourceBalance(f) ==
  IF f.isUSDCTargeted
    THEN [usdc |-> f.sourceBalance.usdc - f.amount, usdt |-> f.sourceBalance.usdt]
    ELSE [usdc |-> f.sourceBalance.usdc, usdt |-> f.sourceBalance.usdt - f.amount]

\* variant: the proceeds are credited in the other asset
NewTargetBalanceOtherAsset(f) ==
  IF f.isUSDCTargeted
    THEN [usdc |-> f.targetBalance.usdc, usdt |-> f.targetBalance.usdt + f.received]
    ELSE [usdc |-> f.targetBalance.usdc + f.received, usdt |-> f.targetBalance.usdt]

NewTargetBalance(f) ==
  IF f.isUSDCTargeted
    THEN [usdc |-> f.targetBalance.usdc + f.received, usdt |-> f.targetBalance.usdt]
    ELSE [usdc |-> f.targetBalance.usdc, usdt |-> f.targetBalance.usdt + f.received]

\* variant: only the debit of the source chain is written
UpdatedBalancesDebitOnly(f) ==
  [paperBalances EXCEPT ![f.buyChain] = NewSourceBalance(f)]

\* variant: the second write starts from the balance the first has left
UpdatedBalancesReadBack(f) ==
  LET debited == [paperBalances EXCEPT ![f.buyChain] = NewSourceBalance(f)]
  IN  [debited EXCEPT ![f.sellChain] =
         IF f.isUSDCTargeted
           THEN [usdc |-> debited[f.sellChain].usdc + f.received,
                 usdt |-> debited[f.sellChain].usdt]
           ELSE [usdc |-> debited[f.sellChain].usdc,
                 usdt |-> debited[f.sellChain].usdt + f.received]]

\* the two updatePaperBalance calls, in program order
UpdatedBalances(f) ==
  [[paperBalances EXCEPT ![f.buyChain] = NewSourceBalance(f)]
     EXCEPT ![f.sellChain] = NewTargetBalance(f)]

PaperTrade(f) ==
  [sourceChain |-> f.buyChain, targetChain |-> f.sellChain,
   sourcePrice |-> f.buyPrice, targetPrice |-> f.sellPrice,
   amount |-> f.amount, profit |-> f.received - f.amount,
   gasCost |-> f.gasCostUSD,
   netProfit |-> (f.received - f.amount) - f.gasCostUSD,
   status |-> "executed"]

\* ------------------------------------------------------------- the cycle
NoBalances == [c \in Chains |-> [usdc |-> 0, usdt |-> 0]]

NoCycle == [targetToken |-> "none", balances |-> NoBalances,
            isUSDCTargeted |-> FALSE, buyChain |-> "none", sellChain |-> "none",
            buyPrice |-> 0, sellPrice |-> 0, totalGasUSD |-> 0,
            reason |-> "none", minTradeAmount |-> 0, maxTradeAmount |-> 0,
            tradeAmount |-> 0, tradesBefore |-> 0, delay |-> 0, failed |-> {},
            logged |-> "none"]

TargetIndex(chain, targetToken) == IF poolToken0[chain] = targetToken THEN 0 ELSE 1

\* the seed allocation of paperBalances
SeedBalances == [c \in Chains |-> [usdc |-> SeedTokens * Unit, usdt |-> SeedTokens * Unit]]

\* priceCache[key] undefined
NoCacheEntry == [set |-> FALSE, price |-> 0, timestamp |-> 0]

NoUsd == [fn |-> "none", chain |-> "none", lookup |-> "none", outcome |-> "none",
          price |-> 0, value |-> 0]

NoRetry == [state |-> "idle", maxRetries |-> 0, delay |-> 0, i |-> 0,
            invocations |-> 0, lastAt |-> 0, slept |-> 0,
            error |-> "none", result |-> "none"]

NoStats == [fn |-> "none", chain |-> "none", balance |-> [usdc |-> 0, usdt |-> 0],
            result |-> [totalTrades |-> 0, profitableTrades |-> 0, totalProfit |-> 0,
                        totalValue |-> 0, winRate |-> 0]]

SideInit ==
  /\ priceCache = [c \in Chains |-> NoCacheEntry]
  /\ clock = 0
  /\ usd = NoUsd
  /\ retry = NoRetry
  /\ stats = NoStats

Init ==
  /\ SideInit
  /\ PROFIT_THRESHOLD \in Thresholds
  /\ poolToken0 \in PoolLayouts
  /\ paperBalances = SeedBalances
  /\ paperTrades = <<>>
  /\ lastPrices = [c \in Chains |-> NoPrice]
  /\ gasCosts = [c \in Chains |-> NoGas]
  /\ pc = "sleep"
  /\ cyc = NoCycle
  /\ poolMetadataCache = [c \in Chains |-> FALSE]
  /\ calls = [c \in Callers |-> NoCall]
  /\ ret = [c \in Callers |-> "none"]

Quiet == \A c \in Callers : calls[c].state = "none"

\* ------------------------------------------------------------ log lines
\* the log line by which checkArbitrageOpportunities or check*TargetedArbitrage
\* states the decision it has taken, "none" where it returns without one
DecisionLog(reason) ==
  CASE reason = "missing price" -> "none"
    [] reason = "metadata failed" -> "Failed to check arbitrage opportunities"
    [] reason = "ratio<=1" -> "not profitable: price ratio <= 1"
    [] reason = "insufficient balance" -> "Insufficient balance for arbitrage"
    [] reason = "below threshold" -> "not profitable after gas costs"
    [] reason = "execute" -> "ARBITRAGE OPPORTUNITY FOUND"

\* the log line by which execute*TargetedArbitrage states how it ended
ExecutionLog(outcome) ==
  CASE outcome = "insufficient" -> "Insufficient balance for paper trade"
    [] outcome = "notProfitable" -> "not executed - insufficient profit"
    [] outcome = "executed" -> "PAPER TRADE EXECUTED"

\* ----------------------------------------------------- execute*, shared
\* execute{USDC,USDT}TargetedArbitrage of caller c from its entry to the
\* await of the two gas costs: the balance snapshot, the commit-time
\* balance check and the profit arithmetic
ExecEnter(c) ==
  /\ pc # "exited"
  /\ calls[c].state = "called"
  /\ IF SufficientBalance(getPaperBalance(calls[c].buyChain), calls[c].amount,
                          calls[c].isUSDCTargeted)
       THEN /\ calls' = [calls EXCEPT ![c] = ExecFrame(calls[c])]
            /\ UNCHANGED <<ret, pc, cyc>>
       ELSE /\ calls' = [calls EXCEPT ![c] = NoCall]
            /\ ret' = [ret EXCEPT ![c] = "insufficient"]
            /\ cyc' = IF c = "cycle"
                        THEN [cyc EXCEPT !.logged = ExecutionLog("insufficient")]
                        ELSE cyc
            /\ pc' = IF c = "cycle" THEN "report" ELSE pc
  /\ UNCHANGED sideVars
  /\ UNCHANGED <<PROFIT_THRESHOLD, poolToken0, paperBalances, paperTrades, lastPrices,
                 gasCosts, poolMetadataCache>>

\* the rest of execute*TargetedArbitrage, after the gas costs have arrived
ExecCommit(c) ==
  /\ pc # "exited"
  /\ calls[c].state = "awaitGas"
  /\ LET f == calls[c]
         netProfitUSD == (f.received - f.amount) - f.gasCostUSD
     IN  IF ExecProfitable(netProfitUSD)
           THEN /\ paperTrades' = Append(paperTrades, PaperTrade(f))
                /\ paperBalances' = UpdatedBalances(f)
                /\ ret' = [ret EXCEPT ![c] = "executed"]
           ELSE /\ UNCHANGED <<paperTrades, paperBalances>>
                /\ ret' = [ret EXCEPT ![c] = "notProfitable"]
  /\ calls' = [calls EXCEPT ![c] = NoCall]
  /\ cyc' = IF c = "cycle" THEN [cyc EXCEPT !.logged = ExecutionLog(ret'[c])] ELSE cyc
  /\ pc' = IF c = "cycle" THEN "report" ELSE pc
  /\ UNCHANGED sideVars
  /\ UNCHANGED <<PROFIT_THRESHOLD, poolToken0, lastPrices, gasCosts, poolMetadataCache>>

\* a direct call of the exported execute*TargetedArbitrage
ApiExecute ==
  /\ pc = "sleep"
  /\ Quiet
  /\ Len(paperTrades) < MaxTrades
  /\ \E isUSDCTargeted \in BOOLEAN, chains \in ApiChainPairs,
        prices \in ApiPricePairs, amount \in ApiAmounts :
        calls' = [calls EXCEPT !["api"] =
           CallFrame(isUSDCTargeted, chains[1], chains[2], prices[1], prices[2], amount)]
  /\ ret' = [ret EXCEPT !["api"] = "pending"]
  /\ UNCHANGED sideVars
  /\ UNCHANGED <<PROFIT_THRESHOLD, poolToken0, paperBalances, paperTrades, lastPrices,
                 gasCosts, pc, cyc, poolMetadataCache>>

\* ------------------------------------------------------- monitorPrices
NextData(chain) == IF chain = "avalanche" THEN "data_sonic" ELSE "metadata"
NextPrice(chain) == IF chain = "avalanche" THEN "price_sonic" ELSE "evaluate"

\* getAllChainData(chain): estimateSwapGasCost stores a new cost, or fails
\* and leaves the stored one; cyc.failed keeps the kinds of step ("gas",
\* "metadata", "price") that have failed in the running cycle
GetAllChainData(chain) ==
  /\ pc = "data_" \o chain
  /\ calls["api"].state = "none"
  /\ \/ /\ \E g \in GasValues : gasCosts' = [gasCosts EXCEPT ![chain] = g]
        /\ UNCHANGED cyc
     \/ /\ UNCHANGED gasCosts
        /\ cyc' = [cyc EXCEPT !.failed = @ \cup {"gas"}]
  /\ pc' = NextData(chain)
  /\ UNCHANGED sideVars
  /\ UNCHANGED <<PROFIT_THRESHOLD, poolToken0, paperBalances, paperTrades, lastPrices,
                 poolMetadataCache, calls, ret>>

\* checkArbitrageOpportunities: getAllPoolMetadata, then determineTargetToken
GetAllPoolMetadata ==
  /\ pc = "metadata"
  /\ calls["api"].state = "none"
  /\ \E fetched \in SUBSET {c \in Chains : ~ poolMetadataCache[c]} :
       /\ poolMetadataCache' = [c \in Chains |-> poolMetadataCache[c] \/ c \in fetched]
       /\ IF \A c \in Chains : poolMetadataCache'[c]
            THEN /\ cyc' = [cyc EXCEPT !.targetToken = determineTargetToken,
                                       !.balances = paperBalances,
                                       !.tradesBefore = Len(paperTrades)]
                 /\ pc' = "price_avalanche"
            ELSE /\ cyc' = [cyc EXCEPT !.reason = "metadata failed",
                                       !.logged = DecisionLog("metadata failed"),
                                       !.failed = @ \cup {"metadata"},
                                       !.delay = PRICE_POLLING_INTERVAL]
                 /\ pc' = "sleep"
  /\ UNCHANGED sideVars
  /\ UNCHANGED <<PROFIT_THRESHOLD, poolToken0, paperBalances, paperTrades, lastPrices,
                 gasCosts, calls, ret>>

\* variant: the error of a failed price fetch leaves monitorPrices
AfterFailedPriceThrown(chain) == "stopped"

\* the catch of get*PoolPrice logs the error and returns: the caller goes on
\* with its next step
AfterFailedPrice(chain) == NextPrice(chain)

\* getPoolPrice of one chain (imported at arbitrage.ts:160; the store into
\* lastPrices is the one of getPharaohPoolPrice / getShadowPoolPrice): stores
\* both directions, or fails and leaves the stored entry
GetPoolPrice(chain) ==
  /\ pc = "price_" \o chain
  /\ calls["api"].state = "none"
  /\ \/ /\ \E price \in PoolPrices :
             lastPrices' = [lastPrices EXCEPT ![chain] =
                [tokens0PerToken1 |-> Inverse(price), tokens1PerToken0 |-> price]]
        /\ UNCHANGED cyc
        /\ pc' = NextPrice(chain)
     \/ /\ UNCHANGED lastPrices
        /\ cyc' = [cyc EXCEPT !.failed = @ \cup {"price"}]
        /\ pc' = AfterFailedPrice(chain)
  /\ UNCHANGED sideVars
  /\ UNCHANGED <<PROFIT_THRESHOLD, poolToken0, paperBalances, paperTrades, gasCosts,
                 poolMetadataCache, calls, ret>>

\* variant: one index test for both target tokens
ChainPriceOneIndexTest(chain, targetToken) ==
  IF TargetIndex(chain, targetToken) = 1 THEN lastPrices[chain].tokens0PerToken1
                                         ELSE lastPrices[chain].tokens1PerToken0

\* the price of one chain in the direction the cycle compares
\* (arbitrage.ts:550-551 and 568-569)
ChainPrice(chain, targetToken) ==
  IF targetToken = "USDT"
    THEN IF TargetIndex(chain, targetToken) = 1 THEN lastPrices[chain].tokens0PerToken1
                                                ELSE lastPrices[chain].tokens1PerToken0
    ELSE IF TargetIndex(chain, targetToken) = 0 THEN lastPrices[chain].tokens0PerToken1
                                                ELSE lastPrices[chain].tokens1PerToken0

\* the direction of the trade (arbitrage.ts:557-558 and 575-576)
BuyChain(avalanchePrice, sonicPrice) ==
  IF avalanchePrice < sonicPrice THEN "avalanche" ELSE "sonic"

\* variant: on equal prices the sell chain is sonic as well
SellChainTieToSonic(avalanchePrice, sonicPrice) ==
  IF avalanchePrice <= sonicPrice THEN "sonic" ELSE "avalanche"

SellChain(avalanchePrice, sonicPrice) ==
  IF avalanchePrice < sonicPrice THEN "sonic" ELSE "avalanche"

\* variant: execute*TargetedArbitrage is started but not awaited
AfterDecisionNoAwait(reason) == "report"

\* check*TargetedArbitrage awaits the execute* call it makes
AfterDecision(reason) == IF reason = "execute" THEN "exec" ELSE "report"

\* checkArbitrageOpportunities from the price check on, with the called
\* check*TargetedArbitrage and the entry of execute*TargetedArbitrage
Evaluate ==
  /\ pc = "evaluate"
  /\ calls["api"].state = "none"
  /\ IF lastPrices["avalanche"] = NoPrice \/ lastPrices["sonic"] = NoPrice
       THEN /\ cyc' = [cyc EXCEPT !.reason = "missing price",
                                  !.logged = DecisionLog("missing price"),
                                  !.delay = PRICE_POLLING_INTERVAL]
            /\ pc' = "sleep"
            /\ UNCHANGED <<calls, ret>>
       ELSE LET totalGasUSD == getGasCostInUSD("avalanche") + getGasCostInUSD("sonic")
                isUSDCTargeted == (cyc.targetToken = "USDT")
                avalanchePrice == ChainPrice("avalanche", cyc.targetToken)
                sonicPrice == ChainPrice("sonic", cyc.targetToken)
                buyChain == BuyChain(avalanchePrice, sonicPrice)
                sellChain == SellChain(avalanchePrice, sonicPrice)
                buyPrice == Min(avalanchePrice, sonicPrice)
                sellPrice == Max(avalanchePrice, sonicPrice)
                d == IF Degenerate(buyPrice) \/ Degenerate(sellPrice)
                       THEN CheckDegenerate(buyChain, buyPrice, sellPrice, isUSDCTargeted)
                       ELSE CheckTargetedArbitrage(buyChain, buyPrice, sellPrice,
                                                   totalGasUSD, isUSDCTargeted)
            IN  /\ cyc' = [cyc EXCEPT !.isUSDCTargeted = isUSDCTargeted,
                                      !.buyChain = buyChain, !.sellChain = sellChain,
                                      !.buyPrice = buyPrice, !.sellPrice = sellPrice,
                                      !.totalGasUSD = totalGasUSD,
                                      !.reason = d.reason,
                                      !.logged = DecisionLog(d.reason),
                                      !.minTradeAmount = d.minTradeAmount,
                                      !.maxTradeAmount = d.maxTradeAmount,
                                      !.tradeAmount = d.tradeAmount]
                /\ IF d.reason = "execute"
                     THEN /\ calls' = [calls EXCEPT !["cycle"] =
                                  CallFrame(isUSDCTargeted, buyChain, sellChain,
                                            buyPrice, sellPrice, d.tradeAmount)]
                          /\ ret' = [ret EXCEPT !["cycle"] = "pending"]
                     ELSE UNCHANGED <<calls, ret>>
                /\ pc' = AfterDecision(d.reason)
  /\ UNCHANGED sideVars
  /\ UNCHANGED <<PROFIT_THRESHOLD, poolToken0, paperBalances, paperTrades, lastPrices,
                 gasCosts, poolMetadataCache>>

\* logBalances after the checks, then the end of checkArbitrageOpportunities
Report ==
  /\ pc = "report"
  /\ calls["api"].state = "none"
  /\ cyc' = [cyc EXCEPT !.delay = PRICE_POLLING_INTERVAL]
  /\ pc' = "sleep"
  /\ UNCHANGED sideVars
  /\ UNCHANGED <<PROFIT_THRESHOLD, poolToken0, paperBalances, paperTrades, lastPrices,
                 gasCosts, poolMetadataCache, calls, ret>>

\* sleep(delay), then the next iteration of the while loop
Sleep ==
  /\ pc = "sleep"
  /\ Quiet
  /\ Len(paperTrades) < MaxTrades
  /\ cyc' = NoCycle
  /\ ret' = [c \in Callers |-> "none"]
  /\ pc' = "data_avalanche"
  /\ UNCHANGED sideVars
  /\ UNCHANGED <<PROFIT_THRESHOLD, poolToken0, paperBalances, paperTrades, lastPrices,
                 gasCosts, poolMetadataCache, calls>>

Next ==
  \/ \E chain \in Chains : GetAllChainData(chain)
  \/ GetAllPoolMetadata
  \/ \E chain \in Chains : GetPoolPrice(chain)
  \/ Evaluate
  \/ \E c \in Callers : ExecEnter(c)
  \/ \E c \in Callers : ExecCommit(c)
  \/ Report
  \/ Sleep
  \/ ApiExecute

Spec == Init /\ [][Next]_vars

\* --------------------------------------------- the loop under fair scheduling
\* every step but the sleep and the direct calls: an awaited external call
\* returns or fails, and the continuation of a settled await is run
LoopStep ==
  \/ \E chain \in Chains : GetAllChainData(chain)
  \/ GetAllPoolMetadata
  \/ \E chain \in Chains : GetPoolPrice(chain)
  \/ Evaluate
  \/ \E c \in Callers : ExecEnter(c)
  \/ \E c \in Callers : ExecCommit(c)
  \/ Report

\* the timer of sleep() fires whatever direct calls are made meanwhile
Fairness == WF_vars(LoopStep) /\ SF_vars(Sleep)

\* one environment: no profit threshold set, USDC token0 on avalanche and
\* token1 on sonic
FixedEnvInit ==
  /\ Init
  /\ PROFIT_THRESHOLD = 0
  /\ poolToken0 = [avalanche |-> "USDC", sonic |-> "USDT"]

LiveSpec == FixedEnvInit /\ [][Next]_vars /\ Fairness

\* ------------------------------------------------- overlapping execute* calls
\* a direct call of the exported execute*TargetedArbitrage made while the
\* execute* call of the cycle is in flight (one such call per cycle)
ApiExecuteConcurrent ==
  /\ pc = "exec"
  /\ calls["api"].state = "none"
  /\ ret["api"] = "none"
  /\ Len(paperTrades) < MaxTrades
  /\ \E isUSDCTargeted \in BOOLEAN, chains \in ApiChainPairs,
        prices \in ApiPricePairs, amount \in ApiAmounts :
        calls' = [calls EXCEPT !["api"] =
           CallFrame(isUSDCTargeted, chains[1], chains[2], prices[1], prices[2], amount)]
  /\ ret' = [ret EXCEPT !["api"] = "pending"]
  /\ UNCHANGED sideVars
  /\ UNCHANGED <<PROFIT_THRESHOLD, poolToken0, paperBalances, paperTrades, lastPrices,
                 gasCosts, pc, cyc, poolMetadataCache>>

ConcNext == Next \/ ApiExecuteConcurrent

ConcSpec == FixedEnvInit /\ [][ConcNext]_vars

\* ------------------------------------------------------------------ shutdown
\* the SIGINT / SIGTERM handler of setupGracefulShutdown: process.exit(0)
\* between two turns of the event loop; no continuation runs afterwards
Shutdown ==
  /\ pc # "exited"
  /\ pc' = "exited"
  /\ UNCHANGED sideVars
  /\ UNCHANGED <<PROFIT_THRESHOLD, poolToken0, paperBalances, paperTrades, lastPrices,
                 gasCosts, cyc, poolMetadataCache, calls, ret>>

ExitNext == Next \/ Shutdown

ExitSpec == FixedEnvInit /\ [][ExitNext]_vars

\* ------------------------------------------- native-token price and gas in USD
\* getUSDPrice and getGasCostInUSD called on their own.  gasCosts[chain] is the
\* stored cost in native tokens; the specifications above hold the native
\* price at 1 USD, this one draws it from the feed, the cache or the fallback.
MaxTicks == 4

CACHE_DURATION == 30000

\* answers of latestRoundData, in USD per native token
FeedPrices == {20, 30}

\* the read of the feed rejected
FeedFailed == -1

fallbackPrices == [avalanche |-> 25, sonic |-> 0]

\* the clock moves in thirds of the cache duration
Tick ==
  /\ clock < MaxTicks * (CACHE_DURATION \div 3)
  /\ clock' = clock + CACHE_DURATION \div 3
  /\ UNCHANGED <<PROFIT_THRESHOLD, poolToken0, paperBalances, paperTrades, lastPrices,
                 gasCosts, pc, cyc, poolMetadataCache, calls, ret,
                 priceCache, usd, retry, stats>>

CacheFreshInclusive(entry, now) == entry.set /\ now - entry.timestamp <= CACHE_DURATION

\* priceCache[cacheKey] && (now - priceCache[cacheKey].timestamp) < CACHE_DURATION
CacheFresh(entry, now) == entry.set /\ now - entry.timestamp < CACHE_DURATION

\* getUSDPrice(chain, nativeToken) with the feed answering `answer` (FeedFailed
\* when the read rejects): what it returns and the cache entry it leaves
USDPrice(chain, answer) ==
  IF CacheFresh(priceCache[chain], clock)
  THEN [lookup |-> "none", outcome |-> "cached", price |-> priceCache[chain].price,
        entry |-> priceCache[chain]]
  ELSE IF answer # FeedFailed
  THEN [lookup |-> "ok", outcome |-> "fetched", price |-> answer,
        entry |-> [set |-> TRUE, price |-> answer, timestamp |-> clock]]
  ELSE IF fallbackPrices[chain] # 0
  THEN [lookup |-> "failed", outcome |-> "fallback", price |-> fallbackPrices[chain],
        entry |-> priceCache[chain]]
  ELSE [lookup |-> "failed", outcome |-> "thrown", price |-> 0,
        entry |-> priceCache[chain]]

GetUSDPrice(chain) ==
  \E answer \in FeedPrices \cup {FeedFailed} :
    LET r == USDPrice(chain, answer) IN
    /\ priceCache' = [priceCache EXCEPT ![chain] = r.entry]
    /\ usd' = [fn |-> "getUSDPrice", chain |-> chain, lookup |-> r.lookup,
               outcome |-> r.outcome, price |-> r.price, value |-> r.price]
    /\ UNCHANGED <<PROFIT_THRESHOLD, poolToken0, paperBalances, paperTrades, lastPrices,
                   gasCosts, pc, cyc, poolMetadataCache, calls, ret,
                   clock, retry, stats>>

GetGasCostInUSD(chain) ==
  /\ IF gasCosts[chain] = NoGas
     THEN /\ usd' = [fn |-> "getGasCostInUSD", chain |-> chain, lookup |-> "none",
                     outcome |-> "no gas data", price |-> 0, value |-> 0]
          /\ UNCHANGED priceCache
     ELSE \E answer \in FeedPrices \cup {FeedFailed} :
            LET r == USDPrice(chain, answer) IN
            /\ priceCache' = [priceCache EXCEPT ![chain] = r.entry]
            /\ usd' = [fn |-> "getGasCostInUSD", chain |-> chain, lookup |-> r.lookup,
                       outcome |-> r.outcome, price |-> r.price,
                       value |-> IF r.outcome = "thrown" THEN 0
                                 ELSE gasCosts[chain] * r.price]
  /\ UNCHANGED <<PROFIT_THRESHOLD, poolToken0, paperBalances, paperTrades, lastPrices,
                 gasCosts, pc, cyc, poolMetadataCache, calls, ret,
                 clock, retry, stats>>

\* the state after some rounds of estimateSwapGasCost: each chain with or
\* without a stored estimate
PriceInit ==
  /\ SideInit
  /\ PROFIT_THRESHOLD = 0
  /\ poolToken0 = [avalanche |-> "USDC", sonic |-> "USDT"]
  /\ paperBalances = SeedBalances
  /\ paperTrades = <<>>
  /\ lastPrices = [c \in Chains |-> NoPrice]
  /\ gasCosts \in [Chains -> {NoGas} \cup GasValues]
  /\ pc = "data_avalanche"
  /\ cyc = NoCycle
  /\ poolMetadataCache = [c \in Chains |-> FALSE]
  /\ calls = [c \in Callers |-> NoCall]
  /\ ret = [c \in Callers |-> "none"]

PriceNext ==
  \/ Tick
  \/ \E chain \in Chains : GetUSDPrice(chain)
  \/ \E chain \in Chains : GetGasCostInUSD(chain)

PriceSpec == PriceInit /\ [][PriceNext]_vars

\* ------------------------------------------------------- reading the ledger
\* the exported readers and direct execute* calls on a ledger whose monitoring
\* loop is not running; a reader may run while an execute* call awaits
RECURSIVE NetProfitSum(_)
NetProfitSum(trades) ==
  IF trades = <<>> THEN 0 ELSE trades[1].netProfit + NetProfitSum(Tail(trades))

\* variant: a call in flight is counted as a trade
getPaperTradingStatsWithPending ==
  LET totalTrades == Len(paperTrades) + Cardinality({c \in Callers : calls[c].state # "none"})
      profitableTrades == Cardinality({i \in 1..Len(paperTrades) : paperTrades[i].netProfit > 0})
  IN  [totalTrades |-> totalTrades,
       profitableTrades |-> profitableTrades,
       totalProfit |-> NetProfitSum(paperTrades),
       totalValue |-> calculateTotalPaperValue,
       winRate |-> IF totalTrades > 0 THEN (profitableTrades * 100 * 100) \div totalTrades ELSE 0]

\* variant: only the USDC holdings are valued
getPaperTradingStatsUsdcOnly ==
  LET totalTrades == Len(paperTrades)
      profitableTrades == Cardinality({i \in 1..Len(paperTrades) : paperTrades[i].netProfit > 0})
  IN  [totalTrades |-> totalTrades,
       profitableTrades |-> profitableTrades,
       totalProfit |-> NetProfitSum(paperTrades),
       totalValue |-> TotalUSDC,
       winRate |-> IF totalTrades > 0 THEN (profitableTrades * 100 * 100) \div totalTrades ELSE 0]

\* getPaperTradingStats; winRate in hundredths of a percent
getPaperTradingStats ==
  LET totalTrades == Len(paperTrades)
      profitableTrades == Cardinality({i \in 1..Len(paperTrades) : paperTrades[i].netProfit > 0})
  IN  [totalTrades |-> totalTrades,
       profitableTrades |-> profitableTrades,
       totalProfit |-> NetProfitSum(paperTrades),
       totalValue |-> calculateTotalPaperValue,
       winRate |-> IF totalTrades > 0 THEN (profitableTrades * 100 * 100) \div totalTrades ELSE 0]

ReadPaperTradingStats ==
  /\ stats' = [fn |-> "getPaperTradingStats", chain |-> "none",
               balance |-> [usdc |-> 0, usdt |-> 0], result |-> getPaperTradingStats]
  /\ UNCHANGED <<PROFIT_THRESHOLD, poolToken0, paperBalances, paperTrades, lastPrices,
                 gasCosts, pc, cyc, poolMetadataCache, calls, ret,
                 priceCache, clock, usd, retry>>

ReadPaperBalance(chainName) ==
  /\ stats' = [fn |-> "getPaperBalance", chain |-> chainName,
               balance |-> getPaperBalance(chainName), result |-> NoStats.result]
  /\ UNCHANGED <<PROFIT_THRESHOLD, poolToken0, paperBalances, paperTrades, lastPrices,
                 gasCosts, pc, cyc, poolMetadataCache, calls, ret,
                 priceCache, clock, usd, retry>>

ReadNext ==
  \/ ApiExecute
  \/ ExecEnter("api")
  \/ ExecCommit("api")
  \/ ReadPaperTradingStats
  \/ \E chainName \in Chains : ReadPaperBalance(chainName)

ReadSpec == FixedEnvInit /\ [][ReadNext]_vars

\* ------------------------------------------------------------- withRetry
\* one call withRetry(fn, maxRetries, delay) with fn an arbitrary promise
\* that settles: each invocation either resolves with a value or rejects with
\* an error
MaxRetryArg == 3

MAX_RETRIES == 3

RetryArgs == (0..MaxRetryArg) \cup {MAX_RETRIES}

RetryDelays == {RETRY_DELAY, 2 * RETRY_DELAY}

FnValues == {"v1", "v2"}

FnErrors == {"e1", "e2"}

WithRetry ==
  /\ retry.state = "idle"
  /\ \E maxRetries \in RetryArgs, delay \in RetryDelays :
       retry' = [NoRetry EXCEPT !.state = "calling", !.maxRetries = maxRetries,
                                !.delay = delay]
  /\ UNCHANGED <<PROFIT_THRESHOLD, poolToken0, paperBalances, paperTrades, lastPrices,
                 gasCosts, pc, cyc, poolMetadataCache, calls, ret,
                 priceCache, clock, usd, stats>>

\* return await fn()
FnReturns ==
  /\ retry.state = "calling"
  /\ \E v \in FnValues :
       retry' = [retry EXCEPT !.state = "returned", !.result = v,
                              !.invocations = @ + 1, !.lastAt = clock]
  /\ UNCHANGED <<PROFIT_THRESHOLD, poolToken0, paperBalances, paperTrades, lastPrices,
                 gasCosts, pc, cyc, poolMetadataCache, calls, ret,
                 priceCache, clock, usd, stats>>

\* variant: the error is rethrown one attempt early
LastAttemptEarly(i, maxRetries) == i + 1 >= maxRetries

\* if (i === maxRetries)
LastAttempt(i, maxRetries) == i = maxRetries

\* fn() rejects: the catch block rethrows or goes to sleep(delay)
FnThrows ==
  /\ retry.state = "calling"
  /\ \E e \in FnErrors :
       retry' = [retry EXCEPT !.state = IF LastAttempt(retry.i, retry.maxRetries)
                                          THEN "thrown" ELSE "sleeping",
                              !.error = e,
                              !.invocations = @ + 1, !.lastAt = clock]
  /\ UNCHANGED <<PROFIT_THRESHOLD, poolToken0, paperBalances, paperTrades, lastPrices,
                 gasCosts, pc, cyc, poolMetadataCache, calls, ret,
                 priceCache, clock, usd, stats>>

\* sleep(delay) is over: i++ and the next turn of the for loop
RetrySleepDone ==
  /\ retry.state = "sleeping"
  /\ clock' = clock + retry.delay
  /\ retry' = [retry EXCEPT !.state = "calling", !.i = @ + 1, !.slept = @ + 1]
  /\ UNCHANGED <<PROFIT_THRESHOLD, poolToken0, paperBalances, paperTrades, lastPrices,
                 gasCosts, pc, cyc, poolMetadataCache, calls, ret,
                 priceCache, usd, stats>>

RetryNext == WithRetry \/ FnReturns \/ FnThrows \/ RetrySleepDone

\* every invocation of fn settles and every timer fires
RetryFairness == WF_vars(FnReturns \/ FnThrows) /\ WF_vars(RetrySleepDone)

RetrySpec == FixedEnvInit /\ [][RetryNext]_vars /\ RetryFairness

\* ------------------------------------------------- a pool that reports zero
\* slot0() of a pool that is not initialised answers sqrtPriceX96 = 0:
\* calculatePriceFromSqrtPriceX96 gives 0 and the getter stores 1 / 0 and 0
GetPoolPriceZero(chain) ==
  /\ pc = "price_" \o chain
  /\ calls["api"].state = "none"
  /\ lastPrices' = [lastPrices EXCEPT ![chain] =
        [tokens0PerToken1 |-> Infinity, tokens1PerToken0 |-> 0]]
  /\ pc' = NextPrice(chain)
  /\ UNCHANGED sideVars
  /\ UNCHANGED <<PROFIT_THRESHOLD, poolToken0, paperBalances, paperTrades, gasCosts,
                 cyc, poolMetadataCache, calls, ret>>

ZeroNext == Next \/ \E chain \in Chains : GetPoolPriceZero(chain)

ZeroSpec == FixedEnvInit /\ [][ZeroNext]_vars

\* ------------------------------------- gas cost moving before the execution
\* what getGasCostInUSD answers for a chain changes between the sizing of a
\* cycle and the execute* call it starts: the cached native-token price has
\* expired and the feed answers a new one, or a new estimate has been stored
MovedGasValues == {50, 400}

GasCostMoves(chain) ==
  /\ pc = "exec"
  /\ calls["cycle"].state = "called"
  /\ \E g \in MovedGasValues \ {gasCosts[chain]} :
       gasCosts' = [gasCosts EXCEPT ![chain] = g]
  /\ UNCHANGED sideVars
  /\ UNCHANGED <<PROFIT_THRESHOLD, poolToken0, paperBalances, paperTrades, lastPrices,
                 pc, cyc, poolMetadataCache, calls, ret>>

RegasNext == Next \/ \E chain \in Chains : GasCostMoves(chain)

RegasSpec == FixedEnvInit /\ [][RegasNext]_vars

TypeOK ==
  /\ pc \in {"data_avalanche", "data_sonic", "metadata", "price_avalanche",
             "price_sonic", "evaluate", "exec", "report", "sleep", "exited"}
  /\ Len(paperTrades) <= MaxTrades

\* ================================================================ claims
RECURSIVE SumProfit(_)
SumProfit(trades) ==
  IF trades = <<>> THEN 0 ELSE trades[1].profit + SumProfit(Tail(trades))

TotalOf(balances, asset) == balances["avalanche"][asset] + balances["sonic"][asset]

\* the price ratio of a direction is <= 1
RatioLeqOne(buyPrice, sellPrice, isUSDCTargeted) ==
  IF isUSDCTargeted THEN sellPrice <= buyPrice ELSE buyPrice <= sellPrice

\* C1: after any sequence of cycles and execute* calls every chain's paper
\* USDC balance and paper USDT balance is >= 0.
C1_BalancesNonNegative ==
  \A c \in Chains : paperBalances[c].usdc >= 0 /\ paperBalances[c].usdt >= 0

\* a trade has debited a chain and a later call asking for more than the
\* chain holds has been turned away
C1_Witness ==
  /\ ret["api"] = "insufficient"
  /\ \E c \in Chains : paperBalances[c].usdc < SeedTokens * Unit
                       \/ paperBalances[c].usdt < SeedTokens * Unit

\* C2: at every state the total portfolio value is the seed value plus the
\* sum of the recorded gross profits of the trades.
C2_LedgerConservation ==
  calculateTotalPaperValue = 4 * SeedTokens * Unit + SumProfit(paperTrades)

\* C3: every step either changes neither the balances nor the trade list,
\* or appends exactly one trade, debits its source chain by the amount and
\* credits its target chain by the amount received, in one asset.
C3_AllOrNothing ==
  [][ \/ UNCHANGED <<paperBalances, paperTrades>>
      \/ /\ Len(paperTrades') = Len(paperTrades) + 1
         /\ SubSeq(paperTrades', 1, Len(paperTrades)) = paperTrades
         /\ LET t == paperTrades'[Len(paperTrades')]
            IN  \E asset \in {"usdc", "usdt"} :
                  /\ \A c \in Chains :
                       paperBalances'[c][asset] =
                         paperBalances[c][asset]
                         - (IF c = t.sourceChain THEN t.amount ELSE 0)
                         + (IF c = t.targetChain THEN t.amount + t.profit ELSE 0)
                  /\ \A c \in Chains, other \in {"usdc", "usdt"} \ {asset} :
                       paperBalances'[c][other] = paperBalances[c][other] ]_vars

\* C4: an execute* call whose amount exceeds the source chain's balance of
\* the spent asset returns as rejected and changes neither the balances nor
\* the trade list.
C4_RejectionNoMutation ==
  [][ \A c \in Callers :
        ( /\ calls[c].state = "called"
          /\ calls'[c] # calls[c]
          /\ StartBalance(paperBalances[calls[c].buyChain], calls[c].isUSDCTargeted)
               < calls[c].amount )
        => ( /\ calls'[c] = NoCall
             /\ ret'[c] = "insufficient"
             /\ UNCHANGED <<paperBalances, paperTrades>> ) ]_vars

\* a direct call on the untouched seed ledger has been rejected
C4_Witness ==
  /\ ret["api"] = "insufficient"
  /\ paperBalances = SeedBalances
  /\ paperTrades = <<>>

\* C5: every recorded trade has status executed and a net profit, equal to
\* its profit minus its gas cost, strictly above PROFIT_THRESHOLD.
C5_RecordedTradesClearThreshold ==
  \A i \in 1..Len(paperTrades) :
    /\ paperTrades[i].status = "executed"
    /\ paperTrades[i].netProfit = paperTrades[i].profit - paperTrades[i].gasCost
    /\ paperTrades[i].netProfit > PROFIT_THRESHOLD

\* a trade is on record and a later call was dropped for too little profit
C5_Witness ==
  /\ Len(paperTrades) >= 1
  /\ ret["api"] = "notProfitable"

\* C6: the selected target is USDC exactly when total USDC <= total USDT,
\* and USDT otherwise.
C6_TargetSelection ==
  pc \in {"price_avalanche", "price_sonic", "evaluate"} =>
    /\ cyc.targetToken \in Tokens
    /\ (cyc.targetToken = "USDC") <=> (TotalUSDC <= TotalUSDT)

\* both outcomes of the selection: a tie, and a ledger with more USDC
C6_Witness ==
  /\ pc = "evaluate"
  /\ cyc.targetToken = "USDT"
  /\ TotalUSDC > TotalUSDT

C6_WitnessTie ==
  /\ pc = "evaluate"
  /\ cyc.targetToken = "USDC"
  /\ TotalUSDC = TotalUSDT

\* C7: in a cycle that executed a trade the system-wide total of the target
\* token selected in that cycle is larger after the trade than at selection.
C7_AccumulatesTarget ==
  (pc = "report" /\ ret["cycle"] = "executed") =>
     IF cyc.targetToken = "USDC"
       THEN TotalUSDC > TotalOf(cyc.balances, "usdc")
       ELSE TotalUSDT > TotalOf(cyc.balances, "usdt")

\* C8: for a price ratio > 1 the minimum trade amount is
\* (totalGasUSD + PROFIT_THRESHOLD + ATOMIC_UNIT) / (ratio - 1), rounded up
\* to the ledger grid.
C8_GasCountedOnce ==
  (pc \in {"exec", "report"} /\ cyc.reason \notin {"none", "ratio<=1"}) =>
    LET num == IF cyc.isUSDCTargeted THEN cyc.sellPrice ELSE cyc.buyPrice
        den == IF cyc.isUSDCTargeted THEN cyc.buyPrice ELSE cyc.sellPrice
    IN  cyc.minTradeAmount =
          MulDivCeil(cyc.totalGasUSD + PROFIT_THRESHOLD + ATOMIC_UNIT, den, num - den)

\* C9: from the seed ledger, with prices 1.0002 and 0.9998, threshold 0.5
\* and gas cost 0.10, a cycle selects USDC and executes one trade of about
\* 1500 tokens whose recorded net profit exceeds 0.5.
C9_SeedScenario ==
  ( /\ pc = "report"
    /\ cyc.balances = SeedBalances
    /\ cyc.tradesBefore = 0
    /\ PROFIT_THRESHOLD = 500
    /\ cyc.totalGasUSD = 100
    /\ cyc.buyPrice = 9998
    /\ cyc.sellPrice = 10002 )
  => ( /\ cyc.targetToken = "USDC"
       /\ ret["cycle"] = "executed"
       /\ Len(paperTrades) = 1
       /\ paperTrades[1].netProfit > 500
       /\ paperTrades[1].amount >= 1400 * Unit
       /\ paperTrades[1].amount <= 1600 * Unit )

\* C10: a cycle whose price ratio is <= 1 stops at the ratio check, calls
\* no execute function and leaves the balances and the trade list as they
\* were when the cycle selected its target.
C10_NoSpreadNoTrade ==
  ( /\ pc \in {"exec", "report"}
    /\ RatioLeqOne(cyc.buyPrice, cyc.sellPrice, cyc.isUSDCTargeted) )
  => ( /\ pc = "report"
       /\ cyc.reason = "ratio<=1"
       /\ ret["cycle"] = "none"
       /\ calls["cycle"] = NoCall
       /\ paperBalances = cyc.balances
       /\ Len(paperTrades) = cyc.tradesBefore )

\* a cycle of the direction that can trade has met equal prices
C10_Witness ==
  /\ pc = "report"
  /\ cyc.isUSDCTargeted
  /\ cyc.buyPrice = cyc.sellPrice
  /\ cyc.reason = "ratio<=1"

\* the buy chain's balance of the starting asset when the cycle sized its trade
SizingBalance == StartBalance(cyc.balances[cyc.buyChain], cyc.isUSDCTargeted)

\* half of a balance, rounded down to whole tokens
HalfFloor(balance) == (balance \div (2 * Unit)) * Unit

\* C11: every trade a cycle attempts or executes has an amount a with
\* 100 <= a <= floor(0.5 * B), B being the buy chain's balance of the
\* starting asset when the trade was sized.
C11_TradeSizeBounds ==
  /\ (pc = "exec" /\ calls["cycle"].state # "none") =>
       /\ calls["cycle"].amount >= AbsoluteMinTradeTokens * Unit
       /\ calls["cycle"].amount <= HalfFloor(SizingBalance)
  /\ (pc = "report" /\ ret["cycle"] = "executed") =>
       /\ paperTrades[Len(paperTrades)].amount >= AbsoluteMinTradeTokens * Unit
       /\ paperTrades[Len(paperTrades)].amount <= HalfFloor(SizingBalance)

\* a cycle has executed a trade of exactly the absolute minimum
C11_Witness ==
  /\ pc = "report"
  /\ ret["cycle"] = "executed"
  /\ paperTrades[Len(paperTrades)].amount = AbsoluteMinTradeTokens * Unit
  /\ HalfFloor(SizingBalance) > AbsoluteMinTradeTokens * Unit

GasTotals == {0} \cup GasValues \cup {a + b : a \in GasValues, b \in GasValues}

\* C14: for fixed prices with ratio > 1 and the fixed threshold, a higher
\* gas cost never gives a smaller minimum trade amount: for every pair of
\* gas costs when a cycle is about to evaluate, and for the minimum a
\* cycle has computed against every other gas cost.
C14_MinAmountMonotoneInGas ==
  /\ pc = "evaluate" =>
       \A prices \in ApiPricePairs, isUSDCTargeted \in BOOLEAN,
          g1 \in GasTotals, g2 \in GasTotals :
            (~ RatioLeqOne(prices[1], prices[2], isUSDCTargeted) /\ g1 <= g2) =>
               calculateMinimumTradeAmount(prices[1], prices[2], g1, isUSDCTargeted)
                 <= calculateMinimumTradeAmount(prices[1], prices[2], g2, isUSDCTargeted)
  /\ (pc \in {"exec", "report"} /\ cyc.minTradeAmount > 0) =>
       \A g \in GasTotals :
          /\ g <= cyc.totalGasUSD =>
               calculateMinimumTradeAmount(cyc.buyPrice, cyc.sellPrice, g, cyc.isUSDCTargeted)
                 <= cyc.minTradeAmount
          /\ g >= cyc.totalGasUSD =>
               calculateMinimumTradeAmount(cyc.buyPrice, cyc.sellPrice, g, cyc.isUSDCTargeted)
                 >= cyc.minTradeAmount

\* a cycle has sized a trade under the highest gas cost, and a lower gas
\* cost would have given a strictly smaller minimum
C14_Witness ==
  /\ pc = "report"
  /\ cyc.minTradeAmount > 0
  /\ cyc.totalGasUSD > 0
  /\ calculateMinimumTradeAmount(cyc.buyPrice, cyc.sellPrice, 0, cyc.isUSDCTargeted)
       < cyc.minTradeAmount

\* C15: a cycle in which a pool price fetch has failed ends at the price
\* check: it calls no evaluator and executes no trade.
C15_NoEvaluationOnPartialPrices ==
  ("price" \in cyc.failed /\ pc \in {"exec", "report", "sleep"}) =>
    /\ pc = "sleep"
    /\ cyc.reason = "missing price"
    /\ ret["cycle"] = "none"

\* C16: a cycle in which a step has failed (gas, pool metadata or price
\* fetch, commit-time rejection) sleeps RETRY_DELAY before the next cycle.
C16_RetryDelayOnFailure ==
  ( /\ pc = "sleep"
    /\ cyc.delay # 0
    /\ (cyc.failed # {} \/ ret["cycle"] = "insufficient") )
  => cyc.delay = RETRY_DELAY

\* C17: under fair scheduling the loop is at its sleep again and again,
\* whatever has failed in the cycle before, and again and again a next
\* cycle starts (until the model's bound on recorded trades is reached).
C17_LoopNeverStops ==
  /\ []<>(pc = "sleep")
  /\ []<>(pc = "data_avalanche" \/ Len(paperTrades) = MaxTrades)

\* a cycle in which both a gas fetch and a price fetch failed has reached
\* its sleep after earlier trades
C17_Witness ==
  /\ pc = "sleep"
  /\ cyc.failed = {"gas", "price"}
  /\ cyc.delay # 0
  /\ Len(paperTrades) >= 1

\* C18: the execute* call of a cycle is in flight only while the cycle waits
\* for it, at most one call is between its balance snapshot and its
\* writes, and a cycle that fetches has no trade application pending.
C18_LedgerMutationSerialized ==
  /\ calls["cycle"].state # "none" => pc = "exec"
  /\ Cardinality({c \in Callers : calls[c].state = "awaitGas"}) <= 1
  /\ pc \in {"data_avalanche", "data_sonic", "metadata", "price_avalanche",
             "price_sonic", "evaluate"} => (Quiet /\ ret["cycle"] = "none")

\* the cycle waits for its execute* call, which has taken its snapshot
C18_Witness ==
  /\ pc = "exec"
  /\ calls["cycle"].state = "awaitGas"
  /\ calls["cycle"].amount > 0

\* C19: every committing execute* call between two distinct chains debits
\* and credits the balances as they are at the commit.
C19_CommitAgainstCurrentBalances ==
  [][ \A c \in Callers :
        ( /\ calls[c].state = "awaitGas"
          /\ calls'[c] = NoCall
          /\ ret'[c] = "executed"
          /\ calls[c].buyChain # calls[c].sellChain )
        => LET f == calls[c]
               asset == IF f.isUSDCTargeted THEN "usdc" ELSE "usdt"
           IN  /\ paperBalances'[f.buyChain][asset] =
                    paperBalances[f.buyChain][asset] - f.amount
               /\ paperBalances'[f.sellChain][asset] =
                    paperBalances[f.sellChain][asset] + f.received ]_vars

\* C20: every step that changes the ledger appends one trade and applies
\* both balance updates of that trade, and the exit changes nothing: the
\* state at process exit holds each trade whole or not at all.
C20_ShutdownNeverTearsTrade ==
  [][ /\ (pc' = "exited" \/ pc = "exited") => UNCHANGED <<paperBalances, paperTrades>>
      /\ (paperBalances' # paperBalances \/ paperTrades' # paperTrades) =>
           /\ Len(paperTrades') = Len(paperTrades) + 1
           /\ SubSeq(paperTrades', 1, Len(paperTrades)) = paperTrades
           /\ LET t == paperTrades'[Len(paperTrades')]
              IN  \E asset \in {"usdc", "usdt"} :
                    /\ \A c \in Chains :
                         paperBalances'[c][asset] =
                           IF c = t.targetChain
                             THEN paperBalances[c][asset] + t.amount + t.profit
                             ELSE IF c = t.sourceChain
                                    THEN paperBalances[c][asset] - t.amount
                                    ELSE paperBalances[c][asset]
                    /\ \A c \in Chains, other \in {"usdc", "usdt"} \ {asset} :
                         paperBalances'[c][other] = paperBalances[c][other] ]_vars

\* the process has exited while an execute* call was waiting for the gas
\* costs, with an earlier trade on record
C20_Witness ==
  /\ pc = "exited"
  /\ \E c \in Callers : calls[c].state = "awaitGas"
  /\ Len(paperTrades) >= 1

\* C21: when the feed lookup fails, getUSDPrice returns the configured
\* fallback price of the chain instead of throwing, on both chains, and
\* getGasCostInUSD returns the stored native cost times that fallback price.
C21_FallbackOnLookupFailure ==
  usd.lookup = "failed" =>
    /\ usd.outcome = "fallback"
    /\ usd.price = fallbackPrices[usd.chain]
    /\ usd.fn = "getGasCostInUSD" => usd.value = gasCosts[usd.chain] * fallbackPrices[usd.chain]

\* C22: getUSDPrice answers from the cache without contacting the feed while
\* the entry is younger than CACHE_DURATION and contacts the feed otherwise; a
\* successful lookup replaces the entry by the new price at the current time,
\* a failed lookup leaves the cache as it was.
C22_CacheWindow ==
  [][ ((usd' # usd \/ priceCache' # priceCache) /\ usd'.outcome # "no gas data") =>
        LET c == usd'.chain
            young == priceCache[c].set /\ clock - priceCache[c].timestamp < 30000
        IN /\ young => /\ usd'.lookup = "none"
                       /\ usd'.price = priceCache[c].price
                       /\ priceCache' = priceCache
           /\ ~young => usd'.lookup \in {"ok", "failed"}
           /\ usd'.lookup = "ok" =>
                priceCache' = [priceCache EXCEPT
                                 ![c] = [set |-> TRUE, price |-> usd'.price, timestamp |-> clock]]
           /\ usd'.lookup = "failed" => priceCache' = priceCache ]_vars

\* an entry aged exactly CACHE_DURATION has just been replaced by a lookup
C22_Witness ==
  /\ usd.lookup = "ok"
  /\ priceCache[usd.chain].timestamp = clock
  /\ clock = CACHE_DURATION
  /\ \E other \in Chains : /\ other # usd.chain
                           /\ priceCache[other].set
                           /\ priceCache[other].timestamp = 0

\* C23: a failed gas-price fetch in a cycle leaves gasCosts[chain] at its
\* previous value and the cycle evaluates with it; while a chain has never had
\* an estimate stored, the cycle skips the gas-aware checks: it computes no
\* minimum trade amount against gas and executes nothing.
C23_GasFetchFailure ==
  [][ /\ (pc \in {"data_avalanche", "data_sonic"} /\ "gas" \in cyc'.failed /\ "gas" \notin cyc.failed)
           => gasCosts' = gasCosts
      /\ (pc = "evaluate" /\ pc' \in {"exec", "report"})
           => /\ cyc'.totalGasUSD = getGasCostInUSD("avalanche") + getGasCostInUSD("sonic")
              /\ (\E chain \in Chains : gasCosts[chain] = NoGas)
                   => cyc'.reason \notin {"execute", "below threshold", "insufficient balance"} ]_vars

\* documented cap on the size of one trade, in tokens
MaxTradeSizeTokens == 1000

\* C25: no trade executed by a monitoring cycle has an amount above the
\* documented cap of 1000 units.
C25_TradeSizeCapped ==
  (pc = "report" /\ ret["cycle"] = "executed") =>
    paperTrades[Len(paperTrades)].amount <= MaxTradeSizeTokens * Unit

\* the stored price of a chain read as USDC per 1 USDT
UsdcPerUsdt(chain) ==
  IF poolToken0[chain] = "USDC" THEN lastPrices[chain].tokens0PerToken1
                                ELSE lastPrices[chain].tokens1PerToken0

ChangedAmounts ==
  {cell \in Chains \X {"usdc", "usdt"} :
     paperBalances'[cell[1]][cell[2]] # paperBalances[cell[1]][cell[2]]}

\* C27: a step that records a trade changes exactly two balance amounts, the
\* source chain's holding of the asset spent (less the amount) and the target
\* chain's holding of the same asset (plus the amount received), and appends
\* one record behind the unchanged earlier ones.
C27_TradeFrame ==
  [][ Len(paperTrades') > Len(paperTrades) =>
        /\ paperTrades' = Append(paperTrades, paperTrades'[Len(paperTrades')])
        /\ LET t == paperTrades'[Len(paperTrades')]
           IN  /\ Cardinality(ChangedAmounts) = 2
               /\ \E asset \in {"usdc", "usdt"} :
                    /\ ChangedAmounts = {<<t.sourceChain, asset>>, <<t.targetChain, asset>>}
                    /\ paperBalances'[t.sourceChain][asset] =
                         paperBalances[t.sourceChain][asset] - t.amount
                    /\ paperBalances'[t.targetChain][asset] =
                         paperBalances[t.targetChain][asset] + t.amount + t.profit ]_vars

\* C26: a cycle that ends without having executed a trade has logged, in the
\* function that took the decision, a line that states the reason.
C26_NoSilentNoOp ==
  (pc = "sleep" /\ cyc.reason # "none" /\ ret["cycle"] # "executed") =>
     cyc.logged # "none"

\* C28: getPaperTradingStats and getPaperBalance leave the balances and the
\* trade list as they are, return what the ledger holds, and a call of
\* getPaperTradingStats that follows another one with no trade applied in
\* between returns the same five numbers.
C28_ReadsArePure ==
  [][ stats' # stats =>
        /\ UNCHANGED <<paperBalances, paperTrades>>
        /\ stats'.fn = "getPaperBalance" => stats'.balance = paperBalances[stats'.chain]
        /\ stats'.fn = "getPaperTradingStats" =>
             stats'.result.totalValue = TotalOf(paperBalances, "usdc") + TotalOf(paperBalances, "usdt")
        /\ (/\ stats.fn = "getPaperTradingStats"
            /\ stats'.fn = "getPaperTradingStats"
            /\ stats.result.totalValue = calculateTotalPaperValue
            /\ stats.result.totalProfit = NetProfitSum(paperTrades))
             => stats'.result = stats.result ]_vars

\* statistics read again after a second trade
C28_Witness ==
  /\ stats.fn = "getPaperTradingStats"
  /\ stats.result.totalTrades = Len(paperTrades)
  /\ stats.result.totalTrades = 2
  /\ stats.result.profitableTrades = 2
  /\ stats.result.totalProfit > 0
  /\ stats.result.totalValue = calculateTotalPaperValue
  /\ stats.result.winRate = 100 * 100

\* C24: withRetry invokes fn at most maxRetries + 1 times, returns the result
\* of the first successful invocation without a further one, sleeps delay
\* between two consecutive attempts, rethrows the last error after the
\* attempt number maxRetries + 1 has failed, and ends once started.
C24_RetryWrapper ==
  /\ [](/\ retry.invocations <= retry.maxRetries + 1
        /\ retry.slept <= retry.maxRetries
        /\ retry.state = "thrown" => /\ retry.invocations = retry.maxRetries + 1
                                     /\ retry.slept = retry.maxRetries
                                     /\ retry.error # "none"
        /\ retry.state = "returned" => /\ retry.result \in FnValues
                                       /\ retry.slept = retry.invocations - 1)
  /\ [][ /\ retry.state \in {"returned", "thrown"} => retry' = retry
         /\ (retry'.invocations > retry.invocations /\ retry.invocations > 0)
               => clock - retry.lastAt = retry.delay
         /\ (retry'.state = "thrown" /\ retry.state # "thrown")
               => /\ retry.state = "calling"
                  /\ retry'.invocations = retry.invocations + 1
         /\ (retry'.state = "returned" /\ retry.state # "returned")
               => /\ retry.state = "calling"
                  /\ retry'.invocations = retry.invocations + 1 ]_vars
  /\ (retry.state = "calling" ~> retry.state \in {"returned", "thrown"})

\* the default three retries used up: four failed attempts, three sleeps
C24_Witness ==
  /\ retry.state = "thrown"
  /\ retry.maxRetries = MAX_RETRIES
  /\ retry.invocations = MAX_RETRIES + 1
  /\ clock = MAX_RETRIES * retry.delay

\* a call that succeeded on its third attempt
C24_WitnessReturned ==
  /\ retry.state = "returned"
  /\ retry.invocations = 3
  /\ retry.error # "none"

\* C29: every stored entry of lastPrices has both directions strictly
\* positive and finite, and the prices a cycle hands to the profit
\* computation are strictly positive and finite.
C29_StoredPricesValid ==
  /\ \A chain \in Chains :
       lastPrices[chain] # NoPrice =>
         /\ lastPrices[chain].tokens0PerToken1 > 0
         /\ lastPrices[chain].tokens1PerToken0 > 0
         /\ lastPrices[chain].tokens0PerToken1 # Infinity
         /\ lastPrices[chain].tokens1PerToken0 # Infinity
  /\ (pc \in {"exec", "report"} /\ cyc.reason \notin {"none", "missing price", "metadata failed"}) =>
       /\ ~ Degenerate(cyc.buyPrice)
       /\ ~ Degenerate(cyc.sellPrice)

\* the steps that may follow a step of the loop
StepsAfter(step) ==
  CASE step = "sleep" -> {"data_avalanche"}
    [] step = "data_avalanche" -> {"data_sonic"}
    [] step = "data_sonic" -> {"metadata"}
    [] step = "metadata" -> {"price_avalanche", "sleep"}
    [] step = "price_avalanche" -> {"price_sonic"}
    [] step = "price_sonic" -> {"evaluate"}
    [] step = "evaluate" -> {"exec", "report", "sleep"}
    [] step = "exec" -> {"report"}
    [] step = "report" -> {"sleep"}

\* C31: the steps of a cycle follow one another in one fixed order, none
\* starting before the one before it has ended, and the target token of a
\* cycle is selected when that cycle's prices have been fetched: the step
\* that follows the selection is the evaluation.
C31_CycleStepOrder ==
  [][ /\ pc' # pc => pc' \in StepsAfter(pc)
      /\ (cyc.targetToken = "none" /\ cyc'.targetToken \in Tokens) => pc' = "evaluate" ]_vars

\* the records of a trade list that count as profitable, and the net profit
\* of a trade list summed from its end
RECURSIVE CountProfitable(_)
CountProfitable(trades) ==
  IF trades = <<>> THEN 0
  ELSE (IF trades[1].netProfit > 0 THEN 1 ELSE 0) + CountProfitable(Tail(trades))

RECURSIVE SumNetFromEnd(_, _)
SumNetFromEnd(trades, n) ==
  IF n = 0 THEN 0 ELSE SumNetFromEnd(trades, n - 1) + trades[n].netProfit

C35_CycleChainsDiffer ==
  /\ (pc \in {"exec", "report"} /\ cyc.reason \notin {"none", "missing price", "metadata failed"})
       => /\ cyc.buyChain # cyc.sellChain
          /\ {cyc.buyChain, cyc.sellChain} = Chains
  /\ calls["cycle"].state # "none"
       => /\ calls["cycle"].buyChain # calls["cycle"].sellChain
          /\ {calls["cycle"].buyChain, calls["cycle"].sellChain} = Chains

\* a cycle has found the same price on both chains
C35_Witness ==
  /\ pc = "report"
  /\ cyc.reason = "ratio<=1"
  /\ cyc.buyPrice = cyc.sellPrice
  /\ cyc.buyChain = "sonic"
  /\ cyc.sellChain = "avalanche"

\* C36: a direct execute* call with the same chain as buy and sell chain
\* that records its trade leaves the chain's balance of the traded asset at
\* the balance before the trade plus the whole amount received: the debit of
\* the amount is lost, the other asset and the other chain are untouched and
\* the total value of the ledger grows by the amount received, not by the
\* gross profit.
C36_SameChainOverwrite ==
  [][ LET f == calls["api"]
          asset == IF f.isUSDCTargeted THEN "usdc" ELSE "usdt"
          other == IF f.isUSDCTargeted THEN "usdt" ELSE "usdc"
      IN  (/\ f.state = "awaitGas"
           /\ f.buyChain = f.sellChain
           /\ Len(paperTrades') > Len(paperTrades))
            => /\ paperBalances'[f.buyChain][asset] = paperBalances[f.buyChain][asset] + f.received
               /\ paperBalances'[f.buyChain][other] = paperBalances[f.buyChain][other]
               /\ \A c \in Chains \ {f.buyChain} : paperBalances'[c] = paperBalances[c]
               /\ calculateTotalPaperValue' = calculateTotalPaperValue + f.received
               /\ calculateTotalPaperValue' # calculateTotalPaperValue + (f.received - f.amount)
               /\ paperTrades'[Len(paperTrades')].profit = f.received - f.amount ]_vars

\* the ledger after one profitable same-chain call on the seed balances
C36_Witness ==
  /\ Len(paperTrades) = 1
  /\ ret["api"] = "executed"
  /\ paperTrades[1].sourceChain = paperTrades[1].targetChain
  /\ calculateTotalPaperValue =
       4 * SeedTokens * Unit + paperTrades[1].amount + paperTrades[1].profit

\* C37: an execute* call started by a cycle reads the gas costs again: the
\* gasCost and the netProfit of the record it writes come from that reading
\* and not from the total the cycle sized the trade with, and when the
\* reading leaves a net profit of at most PROFIT_THRESHOLD the call logs
\* that the trade is not executed and changes neither balances nor trades.
C37_ExecutionRereadsGas ==
  [][ LET f == calls["cycle"]
          netProfitUSD == (f.received - f.amount) - f.gasCostUSD
      IN  /\ (f.state = "called" /\ calls'["cycle"].state = "awaitGas")
               => calls'["cycle"].gasCostUSD =
                    (IF gasCosts[f.buyChain] = NoGas THEN 0 ELSE gasCosts[f.buyChain])
                    + (IF gasCosts[f.sellChain] = NoGas THEN 0 ELSE gasCosts[f.sellChain])
          /\ (f.state = "awaitGas" /\ calls'["cycle"].state = "none")
               => /\ cyc.reason = "execute"
                  /\ netProfitUSD > PROFIT_THRESHOLD
                       => /\ Len(paperTrades') = Len(paperTrades) + 1
                          /\ paperTrades'[Len(paperTrades')].gasCost = f.gasCostUSD
                          /\ paperTrades'[Len(paperTrades')].netProfit = netProfitUSD
                  /\ netProfitUSD <= PROFIT_THRESHOLD
                       => /\ UNCHANGED <<paperBalances, paperTrades>>
                          /\ ret'["cycle"] = "notProfitable"
                          /\ cyc'.logged = "not executed - insufficient profit" ]_vars

\* a trade that passed the final check of the evaluator has been abandoned
\* by the execution because gas had become dearer
C37_Witness ==
  /\ pc = "report"
  /\ cyc.reason = "execute"
  /\ ret["cycle"] = "notProfitable"
  /\ cyc.tradesBefore = Len(paperTrades)
  /\ cyc.totalGasUSD < getGasCostInUSD("avalanche") + getGasCostInUSD("sonic")

\* a trade recorded with a gas cost other than the one it was sized with
C37_WitnessRecorded ==
  /\ pc = "report"
  /\ ret["cycle"] = "executed"
  /\ paperTrades[Len(paperTrades)].gasCost # cyc.totalGasUSD

\* C38: with a threshold and gas costs that are not negative, no step lowers
\* the total value of the ledger or shortens the trade list, every recorded
\* trade has a positive net profit, and the win rate is 100 as soon as one
\* trade is recorded.
C38_ValueAndTradesMonotone ==
  /\ [][ /\ calculateTotalPaperValue' >= calculateTotalPaperValue
         /\ Len(paperTrades') >= Len(paperTrades)
         /\ Len(paperTrades') > Len(paperTrades)
              => /\ SubSeq(paperTrades', 1, Len(paperTrades)) = paperTrades
                 /\ calculateTotalPaperValue' > calculateTotalPaperValue ]_vars
  /\ [](/\ PROFIT_THRESHOLD >= 0
        /\ \A chain \in Chains : getGasCostInUSD(chain) >= 0
        /\ \A i \in 1..Len(paperTrades) : /\ paperTrades[i].netProfit > 0
                                          /\ paperTrades[i].gasCost >= 0
        /\ (pc \in {"sleep", "report"} /\ paperTrades # <<>>)
             => /\ getPaperTradingStats.winRate = 100 * 100
                /\ getPaperTradingStats.profitableTrades = Len(paperTrades))

\* a cycle has added a trade to an earlier one
C38_Witness ==
  /\ pc = "report"
  /\ ret["cycle"] = "executed"
  /\ Len(paperTrades) = 2
  /\ calculateTotalPaperValue > 4 * SeedTokens * Unit
  /\ getPaperTradingStats.winRate = 100 * 100
  /\ paperTrades[2].gasCost > 0

====
